---- MODULE Spec2Model ----
(***************************************************************************)
(* Model of the compatibility-data normalisation in src/main.rs of         *)
(* caniuse_cli: get_support_emoji, get_support_and_notes and the row loop  *)
(* of main.                                                                *)
(*                                                                         *)
(* A Rust String is modelled as a sequence of one-character strings, so    *)
(* that splitting, searching, lower-casing, parsing and formatting are     *)
(* computed character by character.                                        *)
(***************************************************************************)
EXTENDS Integers, Sequences, FiniteSets, TLC

VARIABLES
    feature,        \* the decoded FeatureData: support, stats, notes_by_num
    pending,        \* keys of the iterated map not yet visited by the for loop
    support_data,   \* Vec<BrowserSupportRow> built so far
    selection,      \* latest_version / support_value of each stats iteration done
    pc,             \* position in main: "rows", "done", "panicked"; "call", "ret"
    output,         \* what main printed for the table: "none", "table", "placeholder"
    arg,            \* argument of a direct call of get_support_emoji
    ret             \* value returned by that call

vars == <<feature, pending, support_data, selection, pc, output, arg, ret>>

-----------------------------------------------------------------------------
(* Bounds of the model *)

\* longest string enumerated exhaustively as an argument of get_support_emoji
MaxLen == 3

\* largest number of version labels in one stats entry
MaxLabels == 3

-----------------------------------------------------------------------------
(* Characters and string primitives *)

UpperCase == <<"A","B","C","D","E","F","G","H","I","J","K","L","M",
               "N","O","P","Q","R","S","T","U","V","W","X","Y","Z">>

LowerCase == <<"a","b","c","d","e","f","g","h","i","j","k","l","m",
               "n","o","p","q","r","s","t","u","v","w","x","y","z">>

Digits == <<"0","1","2","3","4","5","6","7","8","9">>

\* char::is_whitespace, on the characters of the model
WhiteSpace == {" ", "\t", "\n"}

IsDigit(c) == \E i \in 1..10 : Digits[i] = c

DigitVal(c) == (CHOOSE i \in 1..10 : Digits[i] = c) - 1

LowerChar(c) ==
    IF \E i \in 1..26 : UpperCase[i] = c
    THEN LowerCase[CHOOSE i \in 1..26 : UpperCase[i] = c]
    ELSE c

\* str::to_lowercase
to_lowercase(s) == [i \in 1..Len(s) |-> LowerChar(s[i])]

\* str::contains(pat) for a one-character pattern
contains(s, c) == \E i \in 1..Len(s) : s[i] = c

\* str::starts_with(c)
starts_with(s, c) == Len(s) >= 1 /\ s[1] = c

AllDigits(s) == \A i \in 1..Len(s) : IsDigit(s[i])

\* index of the first occurrence of c in s, or 0
IndexOf(s, c) ==
    IF contains(s, c) THEN CHOOSE i \in 1..Len(s) : s[i] = c /\ \A j \in 1..(i-1) : s[j] # c
    ELSE 0

RECURSIVE join(_, _)
\* [String]::join(sep)
join(ss, sep) ==
    IF ss = <<>> THEN <<>>
    ELSE IF Len(ss) = 1 THEN ss[1]
    ELSE ss[1] \o sep \o join(Tail(ss), sep)

RECURSIVE split_whitespace(_)
\* str::split_whitespace: the maximal runs of non-whitespace characters
split_whitespace(s) ==
    IF s = <<>> THEN <<>>
    ELSE IF s[1] \in WhiteSpace THEN split_whitespace(Tail(s))
    ELSE LET ws  == {i \in 1..Len(s) : s[i] \in WhiteSpace}
             end == IF ws = {} THEN Len(s) + 1
                    ELSE CHOOSE i \in ws : \A j \in ws : i <= j
         IN  <<SubSeq(s, 1, end - 1)>> \o split_whitespace(SubSeq(s, end, Len(s)))

-----------------------------------------------------------------------------
(* String literals of the program *)

S_empty     == <<>>
S_false     == <<"f","a","l","s","e">>
S_true      == <<"t","r","u","e">>
S_y         == <<"y">>
S_n         == <<"n">>
S_a         == <<"a">>
S_partial   == <<"p","a","r","t","i","a","l">>
S_unknown   == <<"u","n","k","n","o","w","n">>
S_null      == <<"n","u","l","l">>
S_see_notes == <<"s","e","e"," ","n","o","t","e","s">>
S_suffix    == <<" ","(","s","e","e"," ","n","o","t","e","s",")">>
S_newline   == <<"\n">>

\* the four emoji of get_support_emoji
Supported   == "Supported"
Unsupported == "Unsupported"
Partial     == "Partial"
Unknown     == "Unknown"

-----------------------------------------------------------------------------
(* str::parse::<f32>: the grammar of the standard library                   *)
(*   Float  ::= Sign? ( 'inf' | 'infinity' | 'nan' | Number )               *)
(*   Number ::= ( Digit+ | Digit+ '.' Digit* | Digit* '.' Digit+ ) Exp?     *)
(*   Exp    ::= 'e' Sign? Digit+                                            *)
(* letters in any case; no surrounding whitespace; the empty string fails.  *)
(* A parsed number is kept as neg, mant, exp: (-1)^neg * mant * 10^exp.     *)
(* The labels of the model have fewer significant digits than f32 keeps,    *)
(* so the order of these decimals is the order of the parsed f32 values.    *)

S_inf      == <<"i","n","f">>
S_infinity == <<"i","n","f","i","n","i","t","y">>
S_nan      == <<"n","a","n">>

RECURSIVE DigitsToNat(_)
DigitsToNat(s) ==
    IF s = <<>> THEN 0
    ELSE 10 * DigitsToNat(SubSeq(s, 1, Len(s) - 1)) + DigitVal(s[Len(s)])

RECURSIVE Pow10(_)
Pow10(n) == IF n <= 0 THEN 1 ELSE 10 * Pow10(n - 1)

ParseErr == [ok |-> FALSE, kind |-> "err", neg |-> FALSE, mant |-> 0, exp |-> 0]

ParseNumber(body, neg) ==
    LET e    == IndexOf(body, "e")
        m    == IF e = 0 THEN body ELSE SubSeq(body, 1, e - 1)
        x    == IF e = 0 THEN <<>> ELSE SubSeq(body, e + 1, Len(body))
        dot  == IndexOf(m, ".")
        ip   == IF dot = 0 THEN m ELSE SubSeq(m, 1, dot - 1)
        fp   == IF dot = 0 THEN <<>> ELSE SubSeq(m, dot + 1, Len(m))
        xsgn == Len(x) >= 1 /\ x[1] \in {"+", "-"}
        xd   == IF xsgn THEN Tail(x) ELSE x
        mOk  == AllDigits(ip) /\ AllDigits(fp) /\ Len(ip) + Len(fp) >= 1
        xOk  == e = 0 \/ (Len(xd) >= 1 /\ AllDigits(xd))
    IN  IF mOk /\ xOk
        THEN [ok |-> TRUE, kind |-> "num", neg |-> neg,
              mant |-> DigitsToNat(ip \o fp),
              exp  |-> (IF e = 0 THEN 0
                        ELSE IF xsgn /\ x[1] = "-" THEN 0 - DigitsToNat(xd)
                        ELSE DigitsToNat(xd)) - Len(fp)]
        ELSE ParseErr

parse_f32(s) ==
    LET l      == to_lowercase(s)
        signed == Len(l) >= 1 /\ l[1] \in {"+", "-"}
        neg    == signed /\ l[1] = "-"
        body   == IF signed THEN Tail(l) ELSE l
    IN  IF body = S_inf \/ body = S_infinity
        THEN [ok |-> TRUE, kind |-> "inf", neg |-> neg, mant |-> 0, exp |-> 0]
        ELSE IF body = S_nan
        THEN [ok |-> TRUE, kind |-> "nan", neg |-> neg, mant |-> 0, exp |-> 0]
        ELSE ParseNumber(body, neg)

\* the f32 0.0 of unwrap_or(0.0)
F32Zero == [ok |-> TRUE, kind |-> "num", neg |-> FALSE, mant |-> 0, exp |-> 0]

\* a.parse::<f32>().unwrap_or(0.0)
parse_or_zero(s) == LET r == parse_f32(s) IN IF r.ok THEN r ELSE F32Zero

\* f32::partial_cmp: "Less", "Equal", "Greater", or "None" when either is NaN
partial_cmp(a, b) ==
    LET m     == IF a.exp < b.exp THEN a.exp ELSE b.exp
        sc(v) == (IF v.neg THEN -1 ELSE 1) * v.mant * Pow10(v.exp - m)
        rank(v) == IF v.kind = "inf" THEN (IF v.neg THEN -1 ELSE 1) ELSE 0
    IN  IF a.kind = "nan" \/ b.kind = "nan" THEN "None"
        ELSE IF rank(a) # rank(b) THEN (IF rank(a) < rank(b) THEN "Less" ELSE "Greater")
        ELSE IF a.kind = "inf" THEN "Equal"
        ELSE IF sc(a) < sc(b) THEN "Less"
        ELSE IF sc(a) > sc(b) THEN "Greater"
        ELSE "Equal"

-----------------------------------------------------------------------------
(* get_support_emoji *)

\* get_support_emoji matching the keywords without to_lowercase
get_support_emoji_case_sensitive(support_value) ==
    IF support_value = S_false THEN Unsupported
    ELSE IF parse_f32(support_value).ok THEN Supported
    ELSE IF support_value = S_y \/ support_value = S_true THEN Supported
    ELSE IF support_value = S_n \/ support_value = S_false THEN Unsupported
    ELSE IF support_value = S_a \/ support_value = S_partial THEN Partial
    ELSE Unknown

get_support_emoji(support_value) ==
    IF support_value = S_false THEN Unsupported
    ELSE IF parse_f32(support_value).ok THEN Supported
    ELSE LET l == to_lowercase(support_value)
         IN  IF l = S_y \/ l = S_true THEN Supported
             ELSE IF l = S_n \/ l = S_false THEN Unsupported
             ELSE IF l = S_a \/ l = S_partial THEN Partial
             ELSE Unknown

-----------------------------------------------------------------------------
(* BrowserSupport, Option and the JSON value of version_added *)

\* BrowserSupport::Bool(b)
Bool(b) == [tag |-> "Bool", va |-> "none", b |-> b, s |-> <<>>]

\* BrowserSupport::String(s)
String(s) == [tag |-> "String", va |-> "none", b |-> FALSE, s |-> s]

\* BrowserSupport::Object(obj): only obj.get("version_added") is read;
\* va is "absent", or the JSON type of the value: "bool", "str", "null"
Object(va, b, s) == [tag |-> "Object", va |-> va, b |-> b, s |-> s]

None == [some |-> FALSE, val |-> <<>>]

Some(v) == [some |-> TRUE, val |-> v]

\* bool::to_string
bool_to_string(b) == IF b THEN S_true ELSE S_false

\* serde_json::Value::to_string of a value that is not a string
value_to_string(info) == IF info.va = "bool" THEN bool_to_string(info.b) ELSE S_null

\* format!("#{}: {}", num, note)
format_note(num, note) == <<"#">> \o num \o <<":", " ">> \o note

\* format!("{} (see notes)", v)
format_see_notes(v) == v \o S_suffix

RECURSIVE SelectSeq2(_, _)
\* Iterator::filter on a sequence, for a set of kept values
SelectSeq2(ss, keep) ==
    IF ss = <<>> THEN <<>>
    ELSE (IF Head(ss) \in keep THEN <<Head(ss)>> ELSE <<>>) \o SelectSeq2(Tail(ss), keep)

\* lines 82-92: the notes of a version string
resolve_notes(version_str, notes_by_num) ==
    LET parts == split_whitespace(version_str)
        refs  == SelectSeq2(parts, {p \in {parts[i] : i \in 1..Len(parts)} : starts_with(p, "#")})
        found == SelectSeq2(refs, {r \in {refs[i] : i \in 1..Len(refs)} :
                                      notes_by_num.some /\ Tail(r) \in DOMAIN notes_by_num.val})
    IN  join([i \in 1..Len(found) |-> format_note(Tail(found[i]), notes_by_num.val[Tail(found[i])])],
             S_newline)

\* the (support_value_str, notes) of the match in get_support_and_notes
support_value_and_notes(support_info, notes_by_num) ==
    IF support_info.tag = "Bool" THEN <<bool_to_string(support_info.b), None>>
    ELSE IF support_info.tag = "String" THEN <<support_info.s, None>>
    ELSE IF support_info.va = "absent" THEN <<S_unknown, None>>
    ELSE IF support_info.va = "str"
    THEN <<IF contains(support_info.s, "#") THEN format_see_notes(support_info.s)
           ELSE support_info.s,
           Some(resolve_notes(support_info.s, notes_by_num))>>
    ELSE <<value_to_string(support_info), None>>

get_support_and_notes(support_info, notes_by_num) ==
    LET r     == support_value_and_notes(support_info, notes_by_num)
        emoji == get_support_emoji(r[1])
        notes == IF r[2].some THEN r[2].val ELSE <<>>
    IN  <<emoji, notes>>

-----------------------------------------------------------------------------
(* The rows of main *)

\* BrowserSupportRow; browser is format!("{} {}", emoji, browser)
BrowserSupportRow(emoji, browser, support, notes) ==
    [browser |-> <<emoji, browser>>, support |-> support, notes |-> notes]

\* lines 147-155: the support text of a support-map row
support_str(support_info) ==
    IF support_info.tag = "Bool" THEN bool_to_string(support_info.b)
    ELSE IF support_info.tag = "String" THEN support_info.s
    ELSE IF support_info.va = "str"
    THEN (IF contains(support_info.s, "#") THEN format_see_notes(support_info.s)
          ELSE support_info.s)
    ELSE S_false

\* lines 146-161: the row of one entry of the support map
support_row(browser, support_info, notes_by_num) ==
    LET r == get_support_and_notes(support_info, notes_by_num)
    IN  BrowserSupportRow(r[1], browser, support_str(support_info), r[2])

RECURSIVE max_by_swapped(_, _)
\* max_by with the two sides of the comparison exchanged (b.partial_cmp(a))
max_by_swapped(acc, rest) ==
    IF rest = <<>> THEN [panic |-> FALSE, key |-> acc]
    ELSE LET c == partial_cmp(parse_or_zero(Head(rest)), parse_or_zero(acc))
         IN  IF c = "None" THEN [panic |-> TRUE, key |-> <<>>]
             ELSE max_by_swapped(IF c = "Greater" THEN acc ELSE Head(rest), Tail(rest))

RECURSIVE max_by(_, _)
\* Iterator::max_by with the comparator of lines 167-172, folded from acc over
\* rest: the later of two equal keys wins, and the unwrap of a None comparison
\* panics
max_by(acc, rest) ==
    IF rest = <<>> THEN [panic |-> FALSE, key |-> acc]
    ELSE LET c == partial_cmp(parse_or_zero(acc), parse_or_zero(Head(rest)))
         IN  IF c = "None" THEN [panic |-> TRUE, key |-> <<>>]
             ELSE max_by(IF c = "Greater" THEN acc ELSE Head(rest), Tail(rest))

\* lines 165-174: latest_version for the keys in their iteration order
latest_version(keys) ==
    IF keys = <<>> THEN [panic |-> FALSE, key |-> S_empty]
    ELSE max_by(Head(keys), Tail(keys))

\* line 175: versions.get(&latest_version).unwrap_or(&String::new())
support_value(versions, key) ==
    IF key \in DOMAIN versions THEN versions[key] ELSE S_empty

\* lines 176-184: the (emoji, notes) of a stats row
stats_emoji_and_notes(value) ==
    LET words == split_whitespace(value)
        first == IF words = <<>> THEN None ELSE Some(words[1])
    IN  IF first = Some(S_a) \/ first = Some(S_partial) THEN <<Partial, S_see_notes>>
        ELSE IF first = Some(S_y) \/ first = Some(S_true) THEN <<Supported, S_empty>>
        ELSE IF first = Some(S_n) \/ first = Some(S_false) THEN <<Unsupported, S_empty>>
        ELSE <<get_support_emoji(value), S_empty>>

\* lines 186-190: the row of one entry of the stats map
stats_row(browser, value) ==
    LET r == stats_emoji_and_notes(value)
    IN  BrowserSupportRow(r[1], browser,
                          IF contains(value, "#") THEN format_see_notes(value) ELSE value,
                          r[2])

\* the orders in which a HashMap may iterate over the keys S
IterationOrders(S) ==
    {f \in [1..Cardinality(S) -> S] : \A i, j \in 1..Cardinality(S) : f[i] = f[j] => i = j}

\* the keys of the map that the for loop of main iterates over
LoopKeys(f) ==
    IF f.support.some THEN DOMAIN f.support.val
    ELSE IF f.stats.some THEN DOMAIN f.stats.val
    ELSE {}

-----------------------------------------------------------------------------
(* The feature records and arguments the model starts from *)

\* targets of the support and stats maps
Browsers == {"chrome", "firefox"}

R_12      == <<"1","2">>
R_Y       == <<"Y">>
R_y_1     == <<"y"," ","#","1">>
R_a_1_2   == <<"a"," ","#","1"," ","#","2">>
R_12_9    == <<"1","2"," ","#","9">>
R_12h1    == <<"1","2","#","1">>
R_hh1     == <<"#","#","1">>
R_xyz     == <<"x","y","z">>
R_FALSE   == <<"F","A","L","S","E">>
R_Partial == <<"P","a","r","t","i","a","l">>
R_foo     == <<"f","o","o">>
R_bar     == <<"b","a","r">>

\* raw support strings of support-map entries and stats entries
RawStrings ==
    {S_empty, S_false, S_y, R_Y, S_a, R_12, R_y_1, R_a_1_2, R_12_9, R_12h1, R_hh1, R_xyz}

\* version labels of stats entries
Labels == {R_12, <<"7">>, <<"b","e","t","a">>, S_empty, <<"-","1">>, <<"0">>, S_nan}

\* support strings of the stats entries that carry several labels
SmallValues == {S_y, R_a_1_2}

\* Option<HashMap<String, String>> values of notes_by_num
N_1  == [k \in {<<"1">>} |-> R_foo]
N_12 == [k \in {<<"1">>, <<"2">>} |-> IF k = <<"1">> THEN R_foo ELSE R_bar]
NotesIndexes == {None, Some(<<>>), Some(N_1), Some(N_12)}

\* BrowserSupport values
SupportValues ==
    {Bool(b) : b \in BOOLEAN} \cup {String(s) : s \in RawStrings}
    \cup {Object("absent", FALSE, <<>>), Object("null", FALSE, <<>>)}
    \cup {Object("bool", b, <<>>) : b \in BOOLEAN}
    \cup {Object("str", FALSE, s) : s \in RawStrings}

\* HashMap<String, BrowserSupport> values of support
SupportMaps == UNION {[D -> SupportValues] : D \in SUBSET Browsers}

\* HashMap<String, String> values of one stats target
StatsEntries ==
    UNION {[{l} -> RawStrings] : l \in Labels}
    \cup UNION {[D -> SmallValues] :
                  D \in {E \in SUBSET Labels : Cardinality(E) # 1 /\ Cardinality(E) <= MaxLabels}}

E_12    == [l \in {R_12} |-> S_y]
E_mixed == [l \in {R_12, <<"b","e","t","a">>} |-> IF l = R_12 THEN R_a_1_2 ELSE S_y]
E_nan   == [l \in {S_nan, <<"7">>} |-> S_y]

\* HashMap<String, HashMap<String, String>> values of stats
StatsMaps ==
    UNION {[D -> StatsEntries] : D \in {{b} : b \in Browsers} \cup {{}}}
    \cup [Browsers -> {<<>>, E_12, E_mixed, E_nan}]

Stats_fixed == [b \in {"chrome"} |-> E_12]

FeatureData(support, stats, notes_by_num) ==
    [support |-> support, stats |-> stats, notes_by_num |-> notes_by_num]

Features ==
    {FeatureData(Some(m), st, n) :
        m \in SupportMaps, st \in {None, Some(Stats_fixed)}, n \in NotesIndexes}
    \cup {FeatureData(None, Some(st), n) : st \in StatsMaps, n \in {None, Some(N_1)}}
    \cup {FeatureData(None, None, n) : n \in NotesIndexes}

\* characters of the strings enumerated exhaustively
Alphabet == {"1", ".", "-", "+", "e", "n", "a", "y", "N", "i", "f", " ", "#"}

\* arguments of the direct calls of get_support_emoji
ClassifyInputs ==
    UNION {[1..n -> Alphabet] : n \in 0..MaxLen}
    \cup RawStrings
    \cup {S_true, S_partial, R_FALSE, R_Partial, S_inf, S_infinity, S_unknown, S_null,
          <<"T","r","u","e">>, <<"1","2",".","5">>, <<"1","E","+","1","0">>,
          <<"-","I","n","f">>, <<" ","1","2">>}

-----------------------------------------------------------------------------
(* main, one feature: the for loops of lines 144-192 and the print of      *)
(* lines 194-199                                                           *)

Init ==
    /\ feature \in Features
    /\ pending = LoopKeys(feature)
    /\ support_data = <<>>
    /\ selection = {}
    /\ pc = "rows"
    /\ output = "none"
    /\ arg = S_empty
    /\ ret = "none"

\* one iteration of the loop over the support map (lines 145-162)
BuildSupportRow(browser) ==
    /\ pc = "rows"
    /\ feature.support.some
    /\ browser \in pending
    /\ support_data' = Append(support_data,
                              support_row(browser, feature.support.val[browser],
                                          feature.notes_by_num))
    /\ pending' = pending \ {browser}
    /\ UNCHANGED <<feature, selection, pc, output, arg, ret>>

\* one iteration of the loop over the stats map (lines 164-191); the keys of
\* versions come in any order, and a panic ends the program
BuildStatsRow(browser) ==
    /\ pc = "rows"
    /\ ~feature.support.some
    /\ feature.stats.some
    /\ browser \in pending
    /\ LET versions == feature.stats.val[browser]
       IN  \E keys \in IterationOrders(DOMAIN versions) :
              LET lv    == latest_version(keys)
                  value == support_value(versions, lv.key)
              IN  IF lv.panic
                  THEN /\ pc' = "panicked"
                       /\ UNCHANGED <<support_data, pending, selection>>
                  ELSE /\ support_data' = Append(support_data, stats_row(browser, value))
                       /\ pending' = pending \ {browser}
                       /\ selection' = selection \cup
                              {[browser |-> browser, latest_version |-> lv.key,
                                support_value |-> value]}
                       /\ pc' = pc
    /\ UNCHANGED <<feature, output, arg, ret>>

\* lines 194-199: the table, or the placeholder when there are no rows
Render ==
    /\ pc = "rows"
    /\ pending = {}
    /\ output' = IF support_data # <<>> THEN "table" ELSE "placeholder"
    /\ pc' = "done"
    /\ UNCHANGED <<feature, pending, support_data, selection, arg, ret>>

Next ==
    \/ \E browser \in Browsers : BuildSupportRow(browser)
    \/ \E browser \in Browsers : BuildStatsRow(browser)
    \/ Render

Spec == Init /\ [][Next]_vars

-----------------------------------------------------------------------------
(* get_support_emoji called on its own *)

InitClassify ==
    /\ feature = FeatureData(None, None, None)
    /\ pending = {}
    /\ support_data = <<>>
    /\ selection = {}
    /\ pc = "call"
    /\ output = "none"
    /\ arg \in ClassifyInputs
    /\ ret = "none"

Classify ==
    /\ pc = "call"
    /\ ret' = get_support_emoji(arg)
    /\ pc' = "ret"
    /\ UNCHANGED <<feature, pending, support_data, selection, output, arg>>

NextClassify == Classify

SpecClassify == InitClassify /\ [][NextClassify]_vars

-----------------------------------------------------------------------------
(* Notions the claims are stated with *)

\* the rows built so far, and the name of the target of row i
Rows == 1..Len(support_data)

Target(i) == support_data[i].browser[2]

Status(i) == support_data[i].browser[1]

\* row i comes from the support map / from the stats map
FromSupport(i) == feature.support.some

FromStats(i) == ~feature.support.some

Entry(i) == feature.support.val[Target(i)]

\* the selection made for the stats row i
Selected(i) == CHOOSE sel \in selection : sel.browser = Target(i)

\* the raw version string of a support entry, as the specification defines it
RawOfEntry(info) ==
    IF info.tag = "Bool" THEN bool_to_string(info.b)
    ELSE IF info.tag = "String" THEN info.s
    ELSE IF info.va = "str" THEN info.s
    ELSE IF info.va = "bool" THEN bool_to_string(info.b)
    ELSE IF info.va = "absent" THEN S_unknown
    ELSE S_null

\* the raw version string of row i
Raw(i) == IF FromSupport(i) THEN RawOfEntry(Entry(i)) ELSE Selected(i).support_value

HasSuffix(text) ==
    /\ Len(text) >= Len(S_suffix)
    /\ SubSeq(text, Len(text) - Len(S_suffix) + 1, Len(text)) = S_suffix

BeforeSuffix(text) ==
    IF HasSuffix(text) THEN SubSeq(text, 1, Len(text) - Len(S_suffix)) ELSE text

\* the value a version label is compared by
LabelValue(l) == parse_or_zero(l)

\* first-match classification by the six rules of the specification
RuleMatches(k, s) ==
    CASE k = 1 -> s = S_false
      [] k = 2 -> parse_f32(s).ok
      [] k = 3 -> to_lowercase(s) \in {S_y, S_true}
      [] k = 4 -> to_lowercase(s) \in {S_n, S_false}
      [] k = 5 -> to_lowercase(s) \in {S_a, S_partial}
      [] k = 6 -> TRUE

RuleStatus == <<Unsupported, Supported, Supported, Unsupported, Partial, Unknown>>

FirstMatch(s) == CHOOSE k \in 1..6 : RuleMatches(k, s) /\ \A j \in 1..(k-1) : ~RuleMatches(j, s)

\* the footnote tokens of v as the specification defines them: for each '#'
\* of v, left to right, the text after it up to the next whitespace or the end
RECURSIVE TokensFrom(_, _)
TokensFrom(v, i) ==
    IF i > Len(v) THEN <<>>
    ELSE IF v[i] # "#" THEN TokensFrom(v, i + 1)
    ELSE LET ws  == {j \in (i+1)..Len(v) : v[j] \in WhiteSpace}
             end == IF ws = {} THEN Len(v) + 1 ELSE CHOOSE j \in ws : \A k \in ws : j <= k
         IN  <<SubSeq(v, i + 1, end - 1)>> \o TokensFrom(v, i + 1)

RECURSIVE EntriesOf(_, _)
EntriesOf(tokens, notes) ==
    IF tokens = <<>> THEN <<>>
    ELSE (IF notes.some /\ Head(tokens) \in DOMAIN notes.val
          THEN <<format_note(Head(tokens), notes.val[Head(tokens)])>>
          ELSE <<>>) \o EntriesOf(Tail(tokens), notes)

SpecifiedNotes(v, notes) == join(EntriesOf(TokensFrom(v, 1), notes), S_newline)

-----------------------------------------------------------------------------
(* The claims *)

\* C1: get_support_emoji returns the status of the first matching rule of
\* the six, in their order; every string that parses as a finite float is
\* Supported, "FALSE" and "n" are Unsupported, "" and "xyz" are Unknown.
C1_FirstMatchingRule ==
    pc = "ret" =>
        /\ ret = RuleStatus[FirstMatch(arg)]
        /\ (parse_f32(arg).kind = "num" => ret = Supported)
        /\ (arg \in {R_FALSE, S_n} => ret = Unsupported)
        /\ (arg \in {S_empty, R_xyz} => ret = Unknown)

C1_Witness == pc = "ret" /\ arg = R_FALSE /\ ret = Unsupported

\* C2: for every stats entry the selector returns a pair (label,
\* mapping[label]) whose label has the maximum value among all labels; for the
\* empty mapping it returns the empty label and the empty support string and
\* the row has status Unknown.
C2_SelectsMaximum ==
    /\ pc # "panicked"
    /\ \A i \in Rows : FromStats(i) =>
          LET versions == feature.stats.val[Target(i)]
              sel      == Selected(i)
          IN  IF DOMAIN versions = {}
              THEN /\ sel.latest_version = S_empty
                   /\ sel.support_value = S_empty
                   /\ Status(i) = Unknown
              ELSE /\ sel.latest_version \in DOMAIN versions
                   /\ sel.support_value = versions[sel.latest_version]
                   /\ \A l \in DOMAIN versions :
                         partial_cmp(LabelValue(l), LabelValue(sel.latest_version))
                             # "Greater"

\* C3: the notes of a Detail entry whose version_added is the string v are the
\* joined entries "#<n>: <N[n]>" of the footnote tokens of v, a token being the
\* text after a '#' up to the next whitespace or the end, in order, unmatched
\* tokens omitted; empty when v has no '#'.
C3_NotesOfEveryToken ==
    \A i \in Rows : (FromSupport(i) /\ Entry(i).tag = "Object" /\ Entry(i).va = "str") =>
        /\ support_data[i].notes = SpecifiedNotes(Entry(i).s, feature.notes_by_num)
        /\ (~contains(Entry(i).s, "#") => support_data[i].notes = S_empty)

\* C4: whatever shape supplied the raw version string, the support text of a
\* row ends with " (see notes)" when the raw string contains a '#', and has
\* no such suffix when it contains none.
C4_SuffixForEveryShape ==
    \A i \in Rows : HasSuffix(support_data[i].support) <=> contains(Raw(i), "#")

\* C5: for a Detail entry the string classified and the support text shown
\* (before the suffix) are version_added when it is a string, "true"/"false"
\* when it is a boolean, "unknown" when it is absent; version_added false gives
\* the status and text of a Boolean false.
C5_DetailRawString ==
    \A i \in Rows :
        (FromSupport(i) /\ Entry(i).tag = "Object" /\ Entry(i).va \in {"str", "bool", "absent"}) =>
            /\ Status(i) = get_support_emoji(RawOfEntry(Entry(i)))
            /\ BeforeSuffix(support_data[i].support) = RawOfEntry(Entry(i))
            /\ (Entry(i).va = "bool" /\ ~Entry(i).b =>
                   support_data[i] = support_row(Target(i), Bool(FALSE), feature.notes_by_num))

\* C6: with a support map every row is built from the support-map entry of its
\* target, whatever the stats map; without one and with a stats map, one row
\* per stats target is built from the selector's result; with neither, zero
\* rows and the placeholder, without error.
C6_SourcePrecedence ==
    /\ pc # "panicked"
    /\ Cardinality({Target(i) : i \in Rows}) = Len(support_data)
    /\ {Target(i) : i \in Rows} = LoopKeys(feature) \ pending
    /\ (pc = "done" => pending = {})
    /\ \A i \in Rows :
          IF feature.support.some
          THEN support_data[i] = support_row(Target(i), Entry(i), feature.notes_by_num)
          ELSE support_data[i] = stats_row(Target(i), Selected(i).support_value)
    /\ (~feature.support.some /\ ~feature.stats.some /\ pc = "done" =>
           support_data = <<>> /\ output = "placeholder")

\* C7: row building is total: normalisation never reaches a panic, and when it
\* finishes there is a row with a defined status for each target.
C7_NoPanic ==
    /\ pc # "panicked"
    /\ (pc = "done" =>
           /\ {Target(i) : i \in Rows} = LoopKeys(feature)
           /\ \A i \in Rows : Status(i) \in {Supported, Unsupported, Partial, Unknown})

\* C8: the status of a row built from a stats entry whose selected support
\* string is s equals the status of a row built from a Label entry s, and
\* both equal get_support_emoji(s).
C8_StatusIndependentOfShape ==
    \A i \in Rows : FromStats(i) =>
        /\ Status(i) = support_row(Target(i), String(Raw(i)), feature.notes_by_num).browser[1]
        /\ Status(i) = get_support_emoji(Raw(i))

\* C9: the notes of every row, whichever source produced it, are the note
\* resolver's output for the row's raw version string and the notes index:
\* empty without a '#', and otherwise only "#<n>: <text>" entries.
C9_NotesAreResolvedNotes ==
    \A i \in Rows :
        /\ support_data[i].notes = resolve_notes(Raw(i), feature.notes_by_num)
        /\ (~contains(Raw(i), "#") => support_data[i].notes = S_empty)

\* C10 as stated: whenever a stats entry has a label that parses as a number
\* (zero and negative values included, for every iteration order), the
\* selected label parses as a number.
C10_NumericAlwaysWins ==
    \A i \in Rows : FromStats(i) =>
        ((\E l \in DOMAIN feature.stats.val[Target(i)] : parse_f32(l).ok)
            => parse_f32(Selected(i).latest_version).ok)

\* C10 amended: whenever a stats entry has a label that parses to a value
\* greater than 0.0, no label that fails to parse is selected.
C10_PositiveNumericWins ==
    \A sel \in selection :
        ((\E l \in DOMAIN feature.stats.val[sel.browser] :
              parse_f32(l).ok /\ partial_cmp(parse_f32(l), F32Zero) = "Greater")
            => parse_f32(sel.latest_version).ok)

C10_Witness ==
    \E sel \in selection :
        /\ DOMAIN feature.stats.val[sel.browser] = {R_12, <<"7">>, <<"b","e","t","a">>}
        /\ sel.latest_version = R_12

====
